---- MODULE Spec2Model ----
(***************************************************************************)
(* Model of task_2.py: the two cyclic FIFO buffers CyclicBufferOne (built  *)
(* on collections.deque(maxlen=...)) and CyclicBufferTwo (a list with      *)
(* manual index arithmetic).  One caller constructs both classes with the  *)
(* same buffer_size argument and then issues the same calls to both        *)
(* objects, recording the outcome, a returned value or a raised exception, *)
(* of every call.                                                          *)
(***************************************************************************)
EXTENDS Integers, Sequences, FiniteSets, TLC

VARIABLES buffer_size, one, two, hist, op, ret1, ret2, got1, got2, threads

vars == <<buffer_size, one, two, hist, op, ret1, ret2, got1, got2, threads>>

\* ------------------------------------------------------------------ bounds
MaxCap == 3
MaxItem == 2
MaxAppends == 4

\* buffer_size arguments tried: a negative one, zero and the positive ones
CapArgs == -1 .. MaxCap
Items == 0 .. MaxItem
\* the value the caller writes into a list it got: one that no append passes
Mark == MaxItem + 1

\* --------------------------------------------------------- Python values
None == "None"
Return(v) == [kind |-> "return", val |-> v]
Raise(e) == [kind |-> "raise", val |-> e]
\* no call was made because the constructor raised and there is no object
NoCall == [kind |-> "none", val |-> "no object"]
NoObject == [cls |-> "none"]
NoList == [obj |-> "none", val |-> <<>>]

Min(a, b) == IF a < b THEN a ELSE b
Max(a, b) == IF a > b THEN a ELSE b

\* [v] * n : a list of n copies of v, the empty list when n <= 0
PyRepeat(v, n) == IF n <= 0 THEN <<>> ELSE [i \in 1 .. n |-> v]

\* a % n as a remainder that truncates towards zero: negative for a negative a
PyModTruncates(a, n) ==
    IF a >= 0 THEN (IF n > 0 THEN a % n ELSE a % (0 - n))
    ELSE 0 - (IF n > 0 THEN (0 - a) % n ELSE (0 - a) % (0 - n))

\* a % n with Python's sign rule (the result has the sign of the divisor n # 0)
PyMod(a, n) == IF n > 0 THEN a % n ELSE 0 - ((0 - a) % (0 - n))

\* does the Python index i (0-based, negative counts from the end) exist in lst
PyIndexOk(lst, i) == (0 - Len(lst)) <= i /\ i < Len(lst)
\* position in the 1-based TLA+ sequence of Python index i
PyIndex(lst, i) == IF i < 0 THEN i + Len(lst) + 1 ELSE i + 1

\* lst[i]
PyGetItem(lst, i) ==
    IF PyIndexOk(lst, i) THEN Return(lst[PyIndex(lst, i)]) ELSE Raise("IndexError")

\* lst[i] = v : the new list, or the list untouched and IndexError
PySetItem(lst, i, v) ==
    IF PyIndexOk(lst, i)
    THEN [lst |-> [lst EXCEPT ![PyIndex(lst, i)] = v], out |-> Return(None)]
    ELSE [lst |-> lst, out |-> Raise("IndexError")]

\* a slice bound clamped as Python does
PyClamp(lst, i) == IF i < 0 THEN Max(i + Len(lst), 0) ELSE Min(i, Len(lst))
\* lst[lo:hi] : always a new list, never an error
PySlice(lst, lo, hi) ==
    LET l == PyClamp(lst, lo)
        h == PyClamp(lst, hi)
    IN IF h <= l THEN <<>> ELSE SubSeq(lst, l + 1, h)
\* lst[lo:]
PySliceFrom(lst, lo) == PySlice(lst, lo, Len(lst))
\* lst[:hi]
PySliceTo(lst, hi) == PySlice(lst, 0, hi)

\* ------------------------------------------------------- CyclicBufferOne
\* deque(maxlen=n): ValueError for a negative n
OneInit(n) ==
    IF n < 0
    THEN [self |-> NoObject, out |-> Raise("ValueError")]
    ELSE [self |-> [cls |-> "CyclicBufferOne", buffer |-> <<>>, maxlen |-> n],
          out |-> Return(None)]

\* deque.append on a bounded deque: add on the right, then drop from the left
\* while the deque is longer than maxlen
OneAppend(self, item) ==
    LET added == Append(self.buffer, item)
    IN [self |-> [self EXCEPT !.buffer =
                     IF Len(added) > self.maxlen THEN Tail(added) ELSE added],
        out |-> Return(None)]

\* list(self.buffer): a new list
OneGetBuffer(self) ==
    [self |-> self, out |-> Return(self.buffer), obj |-> "new list"]

OnePeekTop(self) ==
    IF Len(self.buffer) = 0
    THEN [self |-> self, out |-> Raise("IndexError")]
    ELSE [self |-> self, out |-> PyGetItem(self.buffer, -1)]

OnePeekBottom(self) ==
    IF Len(self.buffer) = 0
    THEN [self |-> self, out |-> Raise("IndexError")]
    ELSE [self |-> self, out |-> PyGetItem(self.buffer, 0)]

\* ------------------------------------------------------- CyclicBufferTwo
TwoInit(n) ==
    [self |-> [cls |-> "CyclicBufferTwo", buffer |-> PyRepeat(0, n), size |-> n,
               position |-> 0, count |-> 0],
     out |-> Return(None)]

\* append that counts every call, full or not
TwoAppendCountsAlways(self, item) ==
    LET set == PySetItem(self.buffer, self.position, item)
        s1 == [self EXCEPT !.buffer = set.lst]
    IN IF set.out.kind = "raise" THEN [self |-> self, out |-> set.out]
       ELSE IF self.size = 0 THEN [self |-> s1, out |-> Raise("ZeroDivisionError")]
       ELSE [self |-> [s1 EXCEPT !.position = PyMod(s1.position + 1, s1.size),
                                 !.count = s1.count + 1],
             out |-> Return(None)]

\* append that advances position before it stores the item
TwoAppendAdvancesFirst(self, item) ==
    IF self.size = 0 THEN [self |-> self, out |-> Raise("ZeroDivisionError")]
    ELSE LET s1 == [self EXCEPT !.position = PyMod(self.position + 1, self.size)]
             set == PySetItem(s1.buffer, s1.position, item)
             s2 == [s1 EXCEPT !.buffer = set.lst]
         IN IF set.out.kind = "raise" THEN [self |-> s1, out |-> set.out]
            ELSE [self |-> IF s2.count < s2.size
                           THEN [s2 EXCEPT !.count = s2.count + 1]
                           ELSE s2,
                  out |-> Return(None)]

\* append that lets position run past the end of the storage
TwoAppendNoWrap(self, item) ==
    LET set == PySetItem(self.buffer, self.position, item)
        s1 == [self EXCEPT !.buffer = set.lst]
    IN IF set.out.kind = "raise" THEN [self |-> self, out |-> set.out]
       ELSE LET s2 == [s1 EXCEPT !.position = s1.position + 1]
            IN [self |-> IF s2.count < s2.size
                         THEN [s2 EXCEPT !.count = s2.count + 1]
                         ELSE s2,
                out |-> Return(None)]

\* append whose count wraps around like position
TwoAppendCountWraps(self, item) ==
    LET set == PySetItem(self.buffer, self.position, item)
        s1 == [self EXCEPT !.buffer = set.lst]
    IN IF set.out.kind = "raise" THEN [self |-> self, out |-> set.out]
       ELSE IF self.size = 0 THEN [self |-> s1, out |-> Raise("ZeroDivisionError")]
       ELSE [self |-> [s1 EXCEPT !.position = PyMod(s1.position + 1, s1.size),
                                 !.count = PyMod(s1.count + 1, s1.size)],
             out |-> Return(None)]

TwoAppend(self, item) ==
    LET set == PySetItem(self.buffer, self.position, item)
        s1 == [self EXCEPT !.buffer = set.lst]
    IN IF set.out.kind = "raise" THEN [self |-> self, out |-> set.out]
       ELSE IF self.size = 0 THEN [self |-> s1, out |-> Raise("ZeroDivisionError")]
       ELSE LET s2 == [s1 EXCEPT !.position = PyMod(s1.position + 1, s1.size)]
            IN [self |-> IF s2.count < s2.size
                         THEN [s2 EXCEPT !.count = s2.count + 1]
                         ELSE s2,
                out |-> Return(None)]

\* get_buffer without the rotation of the full branch
TwoGetBufferNoRotate(self) ==
    IF self.count < self.size
    THEN [self |-> self, out |-> Return(PySliceTo(self.buffer, self.count)),
          obj |-> "new list"]
    ELSE [self |-> self, out |-> Return(PySliceFrom(self.buffer, 0)),
          obj |-> "new list"]

\* get_buffer that returns the whole storage, placeholders included, until full
TwoGetBufferWholeStorage(self) ==
    IF self.count < self.size
    THEN [self |-> self, out |-> Return(PySliceFrom(self.buffer, 0)),
          obj |-> "new list"]
    ELSE [self |-> self,
          out |-> Return(PySliceFrom(self.buffer, self.position)
                         \o PySliceTo(self.buffer, self.position)),
          obj |-> "new list"]

\* get_buffer that hands out self.buffer itself when it is already in order
TwoGetBufferShares(self) ==
    IF self.count < self.size
    THEN [self |-> self, out |-> Return(PySliceTo(self.buffer, self.count)),
          obj |-> "new list"]
    ELSE IF self.position = 0
         THEN [self |-> self, out |-> Return(self.buffer), obj |-> "self.buffer"]
         ELSE [self |-> self,
               out |-> Return(PySliceFrom(self.buffer, self.position)
                              \o PySliceTo(self.buffer, self.position)),
               obj |-> "new list"]

TwoGetBuffer(self) ==
    IF self.count < self.size
    THEN [self |-> self, out |-> Return(PySliceTo(self.buffer, self.count)),
          obj |-> "new list"]
    ELSE [self |-> self,
          out |-> Return(PySliceFrom(self.buffer, self.position)
                         \o PySliceTo(self.buffer, self.position)),
          obj |-> "new list"]

\* the index peek_top reads: (self.position - 1) % self.size
TwoPeekTopIndex(self) == PyMod(self.position - 1, self.size)

\* peek_top without the check for the empty buffer
TwoPeekTopNoCheck(self) ==
    IF self.size = 0 THEN [self |-> self, out |-> Raise("ZeroDivisionError")]
    ELSE [self |-> self,
          out |-> PyGetItem(self.buffer, PyMod(self.position - 1, self.size))]

\* peek_top that removes the element it returns
TwoPeekTopPops(self) ==
    IF self.count = 0 THEN [self |-> self, out |-> Raise("IndexError")]
    ELSE IF self.size = 0 THEN [self |-> self, out |-> Raise("ZeroDivisionError")]
    ELSE [self |-> [self EXCEPT !.position = PyMod(self.position - 1, self.size),
                                !.count = self.count - 1],
          out |-> PyGetItem(self.buffer, PyMod(self.position - 1, self.size))]

TwoPeekTop(self) ==
    IF self.count = 0 THEN [self |-> self, out |-> Raise("IndexError")]
    ELSE IF self.size = 0 THEN [self |-> self, out |-> Raise("ZeroDivisionError")]
    ELSE [self |-> self, out |-> PyGetItem(self.buffer, TwoPeekTopIndex(self))]

\* peek_bottom that always reads slot 0
TwoPeekBottomSlotZero(self) ==
    IF self.count = 0 THEN [self |-> self, out |-> Raise("IndexError")]
    ELSE [self |-> self, out |-> PyGetItem(self.buffer, 0)]

TwoPeekBottom(self) ==
    IF self.count = 0 THEN [self |-> self, out |-> Raise("IndexError")]
    ELSE IF self.count < self.size
         THEN [self |-> self, out |-> PyGetItem(self.buffer, 0)]
         ELSE [self |-> self, out |-> PyGetItem(self.buffer, self.position)]

\* ----------------------------------------------------------- the caller
\* the list object a get_buffer call handed to the caller
Held(res) == [obj |-> res.obj, val |-> res.out.val]

\* what a list the caller holds looks like after the object changed to self:
\* a list that is the object's own self.buffer shows the object's storage
Seen(held, self) ==
    IF held.obj = "self.buffer" THEN [held EXCEPT !.val = self.buffer] ELSE held

\* the single caller of the sequential runs: no thread is inside append
NoThreads ==
    [useLock |-> FALSE, lock |-> 0, start |-> NoObject,
     pc |-> <<"idle", "idle">>, item |-> <<0, 0>>, tmp |-> <<0, 0>>,
     out |-> <<NoCall, NoCall>>]

Init ==
    /\ buffer_size \in CapArgs
    /\ one = OneInit(buffer_size).self
    /\ ret1 = OneInit(buffer_size).out
    /\ two = TwoInit(buffer_size).self
    /\ ret2 = TwoInit(buffer_size).out
    /\ hist = <<>>
    /\ op = "__init__"
    /\ got1 = NoList
    /\ got2 = NoList
    /\ threads = NoThreads

\* buffer.append(item) on both objects
DoAppend(item) ==
    /\ Len(hist) < MaxAppends
    /\ hist' = Append(hist, item)
    /\ op' = "append"
    /\ IF one = NoObject
       THEN UNCHANGED <<one, got1>> /\ ret1' = NoCall
       ELSE /\ one' = OneAppend(one, item).self
            /\ ret1' = OneAppend(one, item).out
            /\ got1' = Seen(got1, one')
    /\ two' = TwoAppend(two, item).self
    /\ ret2' = TwoAppend(two, item).out
    /\ got2' = Seen(got2, two')
    /\ UNCHANGED <<buffer_size, threads>>

\* buffer.get_buffer() on both objects; the caller keeps the returned lists
DoGetBuffer ==
    /\ op' = "get_buffer"
    /\ IF one = NoObject
       THEN UNCHANGED <<one, got1>> /\ ret1' = NoCall
       ELSE /\ one' = OneGetBuffer(one).self
            /\ ret1' = OneGetBuffer(one).out
            /\ got1' = Held(OneGetBuffer(one))
    /\ two' = TwoGetBuffer(two).self
    /\ ret2' = TwoGetBuffer(two).out
    /\ got2' = Held(TwoGetBuffer(two))
    /\ UNCHANGED <<buffer_size, hist, threads>>

\* buffer.peek_top() on both objects
DoPeekTop ==
    /\ op' = "peek_top"
    /\ IF one = NoObject
       THEN UNCHANGED <<one, got1>> /\ ret1' = NoCall
       ELSE /\ one' = OnePeekTop(one).self
            /\ ret1' = OnePeekTop(one).out
            /\ got1' = Seen(got1, one')
    /\ two' = TwoPeekTop(two).self
    /\ ret2' = TwoPeekTop(two).out
    /\ got2' = Seen(got2, two')
    /\ UNCHANGED <<buffer_size, hist, threads>>

\* buffer.peek_bottom() on both objects
DoPeekBottom ==
    /\ op' = "peek_bottom"
    /\ IF one = NoObject
       THEN UNCHANGED <<one, got1>> /\ ret1' = NoCall
       ELSE /\ one' = OnePeekBottom(one).self
            /\ ret1' = OnePeekBottom(one).out
            /\ got1' = Seen(got1, one')
    /\ two' = TwoPeekBottom(two).self
    /\ ret2' = TwoPeekBottom(two).out
    /\ got2' = Seen(got2, two')
    /\ UNCHANGED <<buffer_size, hist, threads>>

\* the caller runs lst[i] = Mark on the lists the last get_buffer calls returned
DoMutate(i) ==
    /\ got2.obj # "none"
    /\ PyIndexOk(got2.val, i)
    /\ op' = "mutate"
    /\ got2' = [got2 EXCEPT !.val = PySetItem(got2.val, i, Mark).lst]
    /\ two' = IF got2.obj = "self.buffer"
              THEN [two EXCEPT !.buffer = got2'.val]
              ELSE two
    /\ IF got1.obj # "none" /\ PyIndexOk(got1.val, i)
       THEN /\ got1' = [got1 EXCEPT !.val = PySetItem(got1.val, i, Mark).lst]
            /\ one' = IF got1.obj = "self.buffer"
                      THEN [one EXCEPT !.buffer = got1'.val]
                      ELSE one
       ELSE UNCHANGED <<got1, one>>
    /\ UNCHANGED <<buffer_size, hist, ret1, ret2, threads>>

Next ==
    \/ \E item \in Items : DoAppend(item)
    \/ DoGetBuffer
    \/ DoPeekTop
    \/ DoPeekBottom

Spec == Init /\ [][Next]_vars

\* ---------------------------------------------------------- properties
\* the last n items of the sequence s, oldest first
LastN(s, n) == SubSeq(s, Len(s) - n + 1, Len(s))
\* the values 0, 1, ..., n-1 in order
Counting(n) == [i \in 1 .. n |-> i - 1]
\* the values k, k+1, ..., k+n-1 in order
CountingFrom(k, n) == [i \in 1 .. n |-> k + i - 1]

\* C1: for every capacity >= 1 and every sequence of appends to a fresh
\* buffer, get_buffer returns exactly the last min(n, capacity) appended
\* items, oldest first; after capacity + k appends of 0, 1, 2, ... it
\* returns [k, ..., capacity + k - 1].  Both classes.
C1_FifoContents ==
    buffer_size >= 1 =>
        LET expected == LastN(hist, Min(Len(hist), buffer_size))
        IN /\ TwoGetBuffer(two).out = Return(expected)
           /\ OneGetBuffer(one).out = Return(expected)
           /\ (op = "get_buffer" => ret2 = Return(expected) /\ ret1 = Return(expected))
           /\ (hist = Counting(Len(hist)) /\ Len(hist) >= buffer_size =>
                 TwoGetBuffer(two).out =
                     Return(CountingFrom(Len(hist) - buffer_size, buffer_size)))

\* capacity 2, appends 0, 1, 2: get_buffer has just returned [1, 2]
C1_Witness ==
    /\ buffer_size = 2
    /\ hist = <<0, 1, 2>>
    /\ op = "get_buffer"
    /\ ret2 = Return(<<1, 2>>)
    /\ ret1 = Return(<<1, 2>>)

NextCopy ==
    \/ \E item \in Items : DoAppend(item)
    \/ DoGetBuffer
    \/ DoPeekTop
    \/ DoPeekBottom
    \/ \E i \in 0 .. MaxCap - 1 : DoMutate(i)

\* the caller also writes into the lists get_buffer returned
SpecCopy == Init /\ [][NextCopy]_vars

\* the calls that only read the buffer
ReadOps == {"get_buffer", "peek_top", "peek_bottom"}
\* what get_buffer would return now
Contents2 == TwoGetBuffer(two).out.val
Contents1 == OneGetBuffer(one).out.val

\* C2: on a non-empty buffer, which is what every buffer of capacity >= 1 is
\* after at least one append, peek_top returns the last element of
\* get_buffer and peek_bottom its first element: partially filled, full, and
\* at every position.
C2_PeekMatchesContents ==
    /\ (buffer_size >= 1 /\ Len(hist) >= 1) => Len(Contents2) >= 1 /\ Len(Contents1) >= 1
    /\ Len(Contents2) >= 1 =>
         /\ TwoPeekTop(two).out = Return(Contents2[Len(Contents2)])
         /\ TwoPeekBottom(two).out = Return(Contents2[1])
         /\ (op = "peek_top" => ret2 = Return(Contents2[Len(Contents2)]))
         /\ (op = "peek_bottom" => ret2 = Return(Contents2[1]))
    /\ (one # NoObject /\ Len(Contents1) >= 1) =>
         /\ OnePeekTop(one).out = Return(Contents1[Len(Contents1)])
         /\ OnePeekBottom(one).out = Return(Contents1[1])

\* capacity 3 right after the wraparound: 1, 2, 2, 0 appended, position is 1
\* and peek_bottom has returned the 2 of slot 1
C2_Witness ==
    /\ buffer_size = 3
    /\ hist = <<1, 2, 2, 0>>
    /\ two.position = 1
    /\ two.buffer = <<0, 2, 2>>
    /\ op = "peek_bottom"
    /\ ret2 = Return(2)

\* C3: in every reachable state the length of get_buffer's result is at most
\* the capacity and equals count.
C3_LengthAtMostCapacity ==
    /\ Len(Contents2) <= two.size
    /\ Len(Contents2) = two.count
    /\ one # NoObject => Len(Contents1) <= one.maxlen

\* C4: a construction with capacity 0 or a negative capacity fails, and no
\* buffer object with capacity < 1 exists.
C4_InvalidCapacityRejected ==
    /\ (op = "__init__" /\ buffer_size < 1) => ret1.kind = "raise" /\ ret2.kind = "raise"
    /\ buffer_size < 1 => one = NoObject /\ two = NoObject

\* C5: append has no error outcome on any object that construction produced.
C5_AppendNeverFails ==
    op = "append" =>
        /\ ret2 = Return(None)
        /\ (one # NoObject => ret1 = Return(None))

\* C6: peek_top and peek_bottom on a buffer that holds nothing (count == 0)
\* raise IndexError instead of returning a value.
C6_EmptyPeekRaises ==
    /\ two.count = 0 =>
         /\ TwoPeekTop(two).out = Raise("IndexError")
         /\ TwoPeekBottom(two).out = Raise("IndexError")
         /\ (op \in {"peek_top", "peek_bottom"} => ret2 = Raise("IndexError"))
    /\ (one # NoObject /\ Len(one.buffer) = 0) =>
         /\ OnePeekTop(one).out = Raise("IndexError")
         /\ OnePeekBottom(one).out = Raise("IndexError")
         /\ (op \in {"peek_top", "peek_bottom"} => ret1 = Raise("IndexError"))

\* a fresh buffer of capacity 2 whose peek_top has just raised
C6_Witness ==
    /\ buffer_size = 2
    /\ hist = <<>>
    /\ two.count = 0
    /\ op = "peek_top"
    /\ ret2 = Raise("IndexError")
    /\ ret1 = Raise("IndexError")

\* C7: get_buffer never fails, and returns the empty list whenever count == 0,
\* in particular on a freshly constructed buffer.
C7_GetBufferTotal ==
    /\ TwoGetBuffer(two).out.kind = "return"
    /\ two.count = 0 => Contents2 = <<>>
    /\ op = "get_buffer" =>
         /\ ret2.kind = "return"
         /\ (two.count = 0 => ret2.val = <<>>)
         /\ (one # NoObject => ret1.kind = "return")
         /\ (one # NoObject /\ Len(one.buffer) = 0 => ret1.val = <<>>)

\* a fresh buffer of capacity 3, storage still all placeholders, whose
\* get_buffer has just returned the empty list
C7_Witness ==
    /\ buffer_size = 3
    /\ hist = <<>>
    /\ two.buffer = <<0, 0, 0>>
    /\ two.count = 0 /\ two.position = 0
    /\ op = "get_buffer"
    /\ ret2 = Return(<<>>)

\* C8: get_buffer, peek_top and peek_bottom are read-only: whether they return
\* or raise, buffer, position, count and size (and the deque) are the same
\* after the call as before.
C8_ReadOnly == [][op' \in ReadOps => two' = two /\ one' = one]_vars

\* a full buffer of capacity 2 after a successful peek_top
C8_Witness ==
    /\ buffer_size = 2
    /\ hist = <<1, 2, 0>>
    /\ op = "peek_top"
    /\ ret2 = Return(0)
    /\ two.count = 2 /\ two.position = 1
    /\ two.buffer = <<0, 2>>

\* C9: the list get_buffer returns is an independent copy in both branches:
\* writing into it changes neither the buffer nor what a later get_buffer or
\* peek returns, and a later append changes no list returned earlier.
C9_IndependentCopy ==
    [][/\ op' = "mutate" =>
            /\ two' = two /\ one' = one
            /\ TwoGetBuffer(two').out = TwoGetBuffer(two).out
            /\ TwoPeekTop(two').out = TwoPeekTop(two).out
            /\ TwoPeekBottom(two').out = TwoPeekBottom(two).out
       /\ op' = "append" => got2' = got2 /\ got1' = got1]_vars

\* a full buffer of capacity 2 with position 0 whose returned list the caller
\* overwrote: the list and the buffer's contents differ
C9_Witness ==
    /\ buffer_size = 2
    /\ op = "mutate"
    /\ two.count = two.size /\ two.position = 0
    /\ got2.obj = "new list"
    /\ Contents2 = <<1, 2>>
    /\ got2.val = <<Mark, 2>>

\* two outcomes are the same: both return the same value or both raise the
\* same exception
SameOutcome(a, b) == a.kind = b.kind /\ a.val = b.val

\* C10: for every capacity argument and every sequence of calls the two
\* classes produce the same outcome for every call, construction included.
C10_SameOutcome == SameOutcome(ret1, ret2)

\* C11: in every reachable state of a constructed buffer,
\* 0 <= position < size and 0 <= count <= size.
C11_FieldRanges ==
    /\ 0 <= two.position /\ two.position < two.size
    /\ 0 <= two.count /\ two.count <= two.size

\* the item the last append call passed
LastItem == hist[Len(hist)]

\* C12: one append step stores the item in slot position (where that slot
\* exists) and leaves every other slot alone, makes position
\* (position + 1) mod size, and makes count count + 1 when count < size and
\* leaves it equal to size otherwise.
C12_AppendStep ==
    [][(op' = "append" /\ PyIndexOk(two.buffer, two.position)) =>
          /\ ret2' = Return(None)
          /\ Len(two'.buffer) = Len(two.buffer)
          /\ \A i \in 1 .. Len(two.buffer) :
                two'.buffer[i] = IF i = two.position + 1 THEN hist'[Len(hist')]
                                 ELSE two.buffer[i]
          /\ two'.position = (two.position + 1) % two.size
          /\ two'.count = IF two.count < two.size THEN two.count + 1 ELSE two.count
          /\ (two.count >= two.size => two'.count = two.size)
          /\ two'.size = two.size]_vars

\* capacity 2, full, after the append of 1 over the oldest item in slot 0
C12_Witness ==
    /\ buffer_size = 2
    /\ hist = <<0, 2, 1>>
    /\ op = "append"
    /\ two.buffer = <<1, 2>>
    /\ two.position = 1
    /\ two.count = 2

\* C13: seen through get_buffer, append is a bounded queue: on a buffer that
\* is not full the contents become the old contents followed by the item; on
\* a full buffer they become the old contents without their first element,
\* followed by the item, and the element dropped is the one peek_bottom
\* returned before the append.
C13_BoundedQueue ==
    [][op' = "append" =>
          LET before == TwoGetBuffer(two).out.val
              after == TwoGetBuffer(two').out.val
              item == hist'[Len(hist')]
          IN IF two.count < two.size
             THEN after = Append(before, item)
             ELSE Len(before) >= 1 =>
                    /\ after = Append(Tail(before), item)
                    /\ TwoPeekBottom(two).out = Return(Head(before))]_vars

\* capacity 2, full with [1, 2] after one overwrite: the append of 0 dropped
\* the 1 at the front and position wrapped to 0
C13_Witness ==
    /\ buffer_size = 2
    /\ hist = <<0, 1, 2, 0>>
    /\ op = "append"
    /\ Contents2 = <<2, 0>>
    /\ two.position = 0

\* C14: on a non-empty buffer peek_top reads slot (position - 1) mod size;
\* that index is in [0, size), is size - 1 and never -1 when position is 0,
\* capacity 1 included, and is the slot the most recent append wrote.
C14_NewestIndex ==
    /\ two.count > 0 =>
         /\ 0 <= TwoPeekTopIndex(two) /\ TwoPeekTopIndex(two) < two.size
         /\ (two.position = 0 => TwoPeekTopIndex(two) = two.size - 1)
         /\ TwoPeekTop(two).out = Return(two.buffer[TwoPeekTopIndex(two) + 1])
         /\ TwoPeekTop(two).out = Return(LastItem)
    /\ (op = "peek_top" /\ two.count > 0) => ret2 = Return(LastItem)

\* capacity 3 right after the wraparound: position is 0 again and peek_top
\* has returned the 1 in slot 2
C14_Witness ==
    /\ buffer_size = 3
    /\ hist = <<2, 0, 1>>
    /\ two.position = 0
    /\ TwoPeekTopIndex(two) = 2
    /\ op = "peek_top"
    /\ ret2 = Return(1)

\* C15: no call changes size, and the storage has exactly size slots in every
\* reachable state.
C15_CapacityFixed ==
    /\ two.size = buffer_size
    /\ Len(two.buffer) = two.size

\* C17: after n appends to a fresh CyclicBufferTwo of capacity >= 1,
\* position is n mod size and count is min(n, size); so while count < size,
\* position equals count and the appended items fill exactly slots
\* 0 .. count - 1, in order.
C17_PositionAndCount ==
    buffer_size >= 1 =>
        /\ two.position = Len(hist) % two.size
        /\ two.count = Min(Len(hist), two.size)
        /\ two.count < two.size =>
             /\ two.position = two.count
             /\ \A i \in 1 .. two.count : two.buffer[i] = hist[i]
             /\ \A i \in two.count + 1 .. two.size : two.buffer[i] = 0
             /\ TwoGetBuffer(two).out = Return(hist)
             /\ (two.count > 0 => TwoPeekBottom(two).out = Return(hist[1]))

\* capacity 3 after the appends 1, 2: slots 0 and 1 hold them, slot 2 still
\* holds the placeholder
C17_Witness ==
    /\ buffer_size = 3
    /\ hist = <<1, 2>>
    /\ op = "append"
    /\ two.buffer = <<1, 2, 0>>
    /\ two.position = 2
    /\ two.count = 2

\* C18: count never decreases; a full buffer stays full; once an append has
\* stored an item the buffer is never empty again, and from then on peek_top
\* and peek_bottom return instead of raising.
C18_NeverShrinks ==
    [][/\ two'.count >= two.count
       /\ (two.count = two.size => two'.count = two'.size)
       /\ (two.count > 0 => two'.count > 0)
       /\ (op' = "append" /\ ret2' = Return(None)) => two'.count > 0
       /\ two'.count > 0 =>
            /\ TwoPeekTop(two').out.kind = "return"
            /\ TwoPeekBottom(two').out.kind = "return"
            /\ (op' \in {"peek_top", "peek_bottom"} => ret2'.kind = "return")]_vars

\* capacity 2 long after it became full: still full, and peek_bottom returns
C18_Witness ==
    /\ buffer_size = 2
    /\ hist = <<0, 1, 2, 0>>
    /\ two.count = 2
    /\ op = "peek_bottom"
    /\ ret2 = Return(2)

\* ------------------------------------------- two threads inside append
\* Two threads call append on one shared CyclicBufferTwo.  Every read and
\* every write of an attribute of self is a step of its own, as in the
\* bytecode of lines 78-81; with useLock the caller wraps each call in one
\* lock.
Threads == {1, 2}

\* the appends of the sequence items, one call after the other
RECURSIVE AppendAll(_, _)
AppendAll(self, items) ==
    IF items = <<>> THEN self
    ELSE AppendAll(TwoAppend(self, Head(items)).self, Tail(items))

\* the item sequences appended before the threads start
Prefills == UNION {[1 .. n -> Items] : n \in 0 .. MaxAppends - 2}

\* line 79 without the wraparound
Line79ValueNoWrap(self) == self.position + 1

\* line 79: the value (self.position + 1) % self.size computed from a read
Line79Value(self) == PyMod(self.position + 1, self.size)

\* where a thread goes when its append call has ended
AfterCall == IF threads.useLock THEN "release" ELSE "done"

InitThreads ==
    /\ buffer_size \in CapArgs
    /\ one = OneInit(buffer_size).self
    /\ ret1 = OneInit(buffer_size).out
    /\ ret2 = TwoInit(buffer_size).out
    /\ op = "__init__"
    /\ got1 = NoList
    /\ got2 = NoList
    /\ \E pre \in Prefills, a \in Items, b \in Items, l \in BOOLEAN :
          /\ hist = pre
          /\ two = AppendAll(TwoInit(buffer_size).self, pre)
          /\ threads = [useLock |-> l, lock |-> 0, start |-> two,
                        pc |-> IF l THEN <<"acquire", "acquire">>
                               ELSE <<"line78", "line78">>,
                        item |-> <<a, b>>, tmp |-> <<0, 0>>,
                        out |-> <<NoCall, NoCall>>]

\* the caller's lock: taken before the call, only when no thread holds it
Acquire(t) ==
    /\ threads.pc[t] = "acquire"
    /\ threads.lock = 0
    /\ threads' = [threads EXCEPT !.lock = t, !.pc[t] = "line78"]
    /\ UNCHANGED <<buffer_size, one, two, hist, op, ret1, ret2, got1, got2>>

\* line 78, read of self.position
Line78Read(t) ==
    /\ threads.pc[t] = "line78"
    /\ threads' = [threads EXCEPT !.tmp[t] = two.position, !.pc[t] = "store78"]
    /\ UNCHANGED <<buffer_size, one, two, hist, op, ret1, ret2, got1, got2>>

\* line 78, self.buffer[...] = item with the position read before; an
\* IndexError ends the call
Line78Store(t) ==
    /\ threads.pc[t] = "store78"
    /\ LET set == PySetItem(two.buffer, threads.tmp[t], threads.item[t])
       IN /\ two' = [two EXCEPT !.buffer = set.lst]
          /\ threads' = IF set.out.kind = "raise"
                        THEN [threads EXCEPT !.out[t] = set.out, !.pc[t] = AfterCall]
                        ELSE [threads EXCEPT !.pc[t] = "line79"]
    /\ UNCHANGED <<buffer_size, one, hist, op, ret1, ret2, got1, got2>>

\* line 79, read of self.position and self.size
Line79Read(t) ==
    /\ threads.pc[t] = "line79"
    /\ threads' = [threads EXCEPT !.tmp[t] = Line79Value(two), !.pc[t] = "store79"]
    /\ UNCHANGED <<buffer_size, one, two, hist, op, ret1, ret2, got1, got2>>

\* line 79, write of self.position
Line79Store(t) ==
    /\ threads.pc[t] = "store79"
    /\ two' = [two EXCEPT !.position = threads.tmp[t]]
    /\ threads' = [threads EXCEPT !.pc[t] = "line80"]
    /\ UNCHANGED <<buffer_size, one, hist, op, ret1, ret2, got1, got2>>

\* line 80, if self.count < self.size; the call returns when it is false
Line80Test(t) ==
    /\ threads.pc[t] = "line80"
    /\ threads' = IF two.count < two.size
                  THEN [threads EXCEPT !.pc[t] = "line81"]
                  ELSE [threads EXCEPT !.out[t] = Return(None), !.pc[t] = AfterCall]
    /\ UNCHANGED <<buffer_size, one, two, hist, op, ret1, ret2, got1, got2>>

\* line 81, read of self.count for += 1
Line81Read(t) ==
    /\ threads.pc[t] = "line81"
    /\ threads' = [threads EXCEPT !.tmp[t] = two.count + 1, !.pc[t] = "store81"]
    /\ UNCHANGED <<buffer_size, one, two, hist, op, ret1, ret2, got1, got2>>

\* line 81, write of self.count; the call returns
Line81Store(t) ==
    /\ threads.pc[t] = "store81"
    /\ two' = [two EXCEPT !.count = threads.tmp[t]]
    /\ threads' = [threads EXCEPT !.out[t] = Return(None), !.pc[t] = AfterCall]
    /\ UNCHANGED <<buffer_size, one, hist, op, ret1, ret2, got1, got2>>

\* the caller's lock given back after the call, returned or raised
Release(t) ==
    /\ threads.pc[t] = "release"
    /\ threads' = [threads EXCEPT !.lock = 0, !.pc[t] = "done"]
    /\ UNCHANGED <<buffer_size, one, two, hist, op, ret1, ret2, got1, got2>>

NextThreads ==
    \E t \in Threads :
        \/ Acquire(t)
        \/ Line78Read(t)
        \/ Line78Store(t)
        \/ Line79Read(t)
        \/ Line79Store(t)
        \/ Line80Test(t)
        \/ Line81Read(t)
        \/ Line81Store(t)
        \/ Release(t)

SpecThreads == InitThreads /\ [][NextThreads]_vars

\* both threads are through their append call
BothDone == \A t \in Threads : threads.pc[t] = "done"

\* the buffers the two appends leave when one call runs wholly before the other
SequentialOutcomes ==
    {AppendAll(threads.start, <<threads.item[1], threads.item[2]>>),
     AppendAll(threads.start, <<threads.item[2], threads.item[1]>>)}

====
